---- MODULE Spec2Model ----
(***************************************************************************)
(* PrintEasy: the customer intake form (src/printeasy.py) and the admin    *)
(* panel (src/admin.py) sharing one SQLite table, print_requests.          *)
(*                                                                         *)
(* Time is counted in whole hours.  Timestamps are stored the way the code *)
(* stores them, as text (datetime.isoformat()), and compared as text.      *)
(* Money is counted in paise (1/100 rupee), so 5.0 rupees is 500.          *)
(***************************************************************************)
EXTENDS Integers, Sequences, FiniteSets, TLC

\* ---------------------------------------------------------------- bounds
MaxTime == 25
MaxOrders == 2
MaxPages == 2
MaxCopies == 2
MaxPricePages == 10
MaxPhoneLen == 11

\* ------------------------------------------------------ program constants
RETENTION_HOURS == 12
POLL_INTERVAL == 5
MAX_DOC_SIZE_MB == 10
MAX_IMG_SIZE_MB == 5
MAX_DOC_SIZE_BYTES == MAX_DOC_SIZE_MB * 1024 * 1024
MAX_IMG_SIZE_BYTES == MAX_IMG_SIZE_MB * 1024 * 1024
PHONE_DIGITS == 10
\* prices per side, in paise
COLOR_PRICE_PER_SIDE == 500
BW_PRICE_PER_SIDE == 200
URGENT == "Urgent (Send via WhatsApp)"
PICKUP == "Pickup (Send to Admin Panel)"
ADMIN_PASSWORD == "admin_password"

\* Python's None, where a name or a link is expected
None == "None"
\* Python's None, where a page count is expected
PdfNone == 0 - 1

\* Admin browser sessions and customer browser sessions.
Admins == {"a1", "a2"}
Customers == {"c1"}

VARIABLES
    now,          \* the wall clock, in hours
    tableExists,  \* print_requests is in sqlite_master
    rows,         \* the table: id -> row
    seq,          \* sqlite_sequence: the largest id AUTOINCREMENT has handed out
    admin,        \* per admin session: script position, session_state, locals
    cust,         \* per customer session: st.session_state of the intake form
    lastOp,       \* what the most recent operation did (observation only)
    call          \* a direct call of a pure function: arguments and result

vars == <<now, tableExists, rows, seq, admin, cust, lastOp, call>>

\* lastOp after an operation that only reads the table or the clock.
Quiet == [op |-> "none", who |-> None, id |-> 0]

\* ------------------------------------------------------------ timestamps
\* datetime.isoformat(): fixed-width, zero-padded decimal fields, most
\* significant first.  Two digits are enough for the hours the model reaches.
IsoFormat(t) == <<t \div 10, t % 10>>

\* Text comparison as SQLite (BINARY collation) does it: lexicographic.
RECURSIVE StrLess(_, _)
StrLess(a, b) ==
    IF b = <<>> THEN FALSE
    ELSE IF a = <<>> THEN TRUE
    ELSE IF Head(a) # Head(b) THEN Head(a) < Head(b)
    ELSE StrLess(Tail(a), Tail(b))

\* cutoff_time = (datetime.now() - timedelta(hours=12)).isoformat()
CutoffTimeShort(t) == IsoFormat(t - (RETENTION_HOURS - 1))

CutoffTime(t) == IsoFormat(t - RETENTION_HOURS)

\* ------------------------------------------------------------ the table
\* Ids of a result set, in rowid order.
RECURSIVE SortedSeq(_)
SortedSeq(S) ==
    IF S = {} THEN <<>>
    ELSE LET m == CHOOSE x \in S : \A y \in S : x <= y
         IN <<m>> \o SortedSeq(S \ {m})

SeqToSet(s) == {s[i] : i \in DOMAIN s}

\* SELECT id, submitted_at FROM print_requests
\*   WHERE status = 'Done' AND submitted_at < ?
SelectOldAnyStatus(rs, cutoff) ==
    SortedSeq({i \in DOMAIN rs : StrLess(rs[i].submitted_at, cutoff)})

SelectOld(rs, cutoff) ==
    SortedSeq({i \in DOMAIN rs :
                  rs[i].status = "Done" /\ StrLess(rs[i].submitted_at, cutoff)})

\* for request_id in old_requests: DELETE FROM print_requests WHERE id = ?
DeleteIds(rs, ids) == [i \in DOMAIN rs \ SeqToSet(ids) |-> rs[i]]

\* UPDATE print_requests SET status = 'Done' WHERE id = ?
UpdateDoneToggle(rs, id) ==
    [i \in DOMAIN rs |->
        IF i = id
        THEN [rs[i] EXCEPT !.status = IF @ = "Done" THEN "Pending" ELSE "Done"]
        ELSE rs[i]]

UpdateDone(rs, id) ==
    [i \in DOMAIN rs |-> IF i = id THEN [rs[i] EXCEPT !.status = "Done"] ELSE rs[i]]

\* SELECT * FROM print_requests WHERE status = ?
SelectByStatus(rs, status) ==
    LET ids == SortedSeq({i \in DOMAIN rs : rs[i].status = status})
    IN [k \in DOMAIN ids |-> rs[ids[k]]]

\* ------------------------------------------------------------ intake helpers
Rep(ch, n) == [i \in 1..n |-> ch]

AsciiDigits == {"0", "1", "2", "3", "4", "5", "6", "7", "8", "9"}
\* Decimal digits outside ASCII (category Nd), e.g. ARABIC-INDIC DIGIT THREE.
OtherDigits == {"U+0663"}
\* Python 3's \d on a str pattern matches every Unicode decimal digit.
IsDigit(ch) == ch \in AsciiDigits \cup OtherDigits

\* re.match(r'^\d{10}$', phone): '$' matches at the end of the string and
\* also just before a newline that ends the string.
ValidatePhone(phone) ==
    LET body == IF Len(phone) > 0 /\ phone[Len(phone)] = "LF"
                THEN SubSeq(phone, 1, Len(phone) - 1)
                ELSE phone
    IN  \/ Len(phone) = PHONE_DIGITS /\ \A i \in DOMAIN phone : IsDigit(phone[i])
        \/ Len(body) = PHONE_DIGITS /\ \A i \in DOMAIN body : IsDigit(body[i])

\* A file in an uploader: [attached, name, readable, pages, size].
\* get_pdf_page_count: 0 without a file, the page count of a readable PDF,
\* None when PyPDF2 raises.
GetPdfPageCount(file) ==
    IF ~file.attached THEN 0
    ELSE IF file.readable THEN file.pages
    ELSE PdfNone

\* Line 114: the inputs for which there is nothing to price.
NothingToPriceNever(page_count, copies) == FALSE

NothingToPrice(page_count, copies) ==
    page_count = PdfNone \/ page_count <= 0 \/ copies <= 0

\* base_price_per_side = COLOR_PRICE_PER_SIDE if is_color else BW_PRICE_PER_SIDE
BasePricePerSideFlat(is_color) == BW_PRICE_PER_SIDE

BasePricePerSide(is_color) ==
    IF is_color THEN COLOR_PRICE_PER_SIDE ELSE BW_PRICE_PER_SIDE

\* price_multiplier = 0.5 if print_layout == "Double-sided" else 1.0,
\* as numerator and denominator.
PriceMultiplierFlat(print_layout) == <<1, 1>>

PriceMultiplier(print_layout) ==
    IF print_layout = "Double-sided" THEN <<1, 2>> ELSE <<1, 1>>

CalculatePriceOneCopy(page_count, copies, is_color, print_layout) ==
    IF NothingToPrice(page_count, copies) THEN 0
    ELSE LET base_price_per_side == BasePricePerSide(is_color)
             m == PriceMultiplier(print_layout)
             price_per_original_page == (base_price_per_side * m[1]) \div m[2]
         IN  page_count * price_per_original_page

CalculatePrice(page_count, copies, is_color, print_layout) ==
    IF NothingToPrice(page_count, copies) THEN 0
    ELSE LET base_price_per_side == BasePricePerSide(is_color)
             m == PriceMultiplier(print_layout)
             price_per_original_page == (base_price_per_side * m[1]) \div m[2]
         IN  page_count * price_per_original_page * copies

\* ------------------------------------------------------------ the intake form
\* Lines 206-221: the page count is re-read only when the attached file's
\* name differs from the remembered one; an unreadable file counts as 0.
DocStep(ss, doc) ==
    IF doc.attached
    THEN IF doc.name # ss.current_doc_name
         THEN LET page_count_result == GetPdfPageCount(doc)
              IN  [ss EXCEPT !.current_doc_name = doc.name,
                             !.page_count = IF page_count_result # PdfNone
                                            THEN page_count_result ELSE 0]
         ELSE ss
    ELSE [ss EXCEPT !.current_doc_name = None, !.page_count = 0]

\* Lines 232-260: the screenshot's name is remembered for the preview.
ScreenshotStep(ss, shot) ==
    IF shot.attached
    THEN IF shot.name # ss.current_ss_name
         THEN [ss EXCEPT !.current_ss_name = shot.name]
         ELSE ss
    ELSE [ss EXCEPT !.current_ss_name = None]

\* Lines 296-299: the price shown is recomputed on every run of the script.
PriceStepSingleSided(ss, in) ==
    [ss EXCEPT !.total_price =
        CalculatePrice(ss.page_count, in.copies, in.is_color, "Single-sided")]

PriceStep(ss, in) ==
    [ss EXCEPT !.total_price =
        CalculatePrice(ss.page_count, in.copies, in.is_color, in.print_layout)]

\* The script down to the submit button.
RenderForm(ss, in) == PriceStep(ScreenshotStep(DocStep(ss, in.doc), in.shot), in)

\* Lines 333-346: the validation errors of a submission.
ValidationErrors(ss, in) ==
    (IF ~ValidatePhone(in.phone) THEN {"phone"} ELSE {})
    \cup (IF ~in.doc.attached THEN {"no document"}
          ELSE IF ss.page_count = PdfNone \/ ss.page_count <= 0 THEN {"no pages"}
          ELSE IF in.doc.size > MAX_DOC_SIZE_BYTES THEN {"document size"}
          ELSE {})
    \cup (IF ~in.shot.attached THEN {"no screenshot"}
          ELSE IF in.shot.size > MAX_IMG_SIZE_BYTES THEN {"screenshot size"}
          ELSE {})

\* Lines 321-329 and 431-434, 67-70: the row save_request inserts.
OrderRow(ss, in, t) ==
    [phone |-> in.phone,
     doc_link |-> "doc_link",
     screenshot_link |-> "screenshot_link",
     pages |-> ss.page_count,
     copies |-> in.copies,
     is_color |-> in.is_color,
     Layout |-> in.print_layout,
     pages_per_sheet |-> in.pages_per_sheet,
     price |-> ss.total_price,
     submitted_at |-> IsoFormat(t),
     status |-> "Pending"]

\* INSERT INTO print_requests: the store adds the id column.
InsertRowAtCount(rs, id, row) ==
    LET k == Cardinality(DOMAIN rs) + 1
    IN  [i \in DOMAIN rs \cup {k} |-> IF i = k THEN [id |-> k] @@ row ELSE rs[i]]

InsertRow(rs, id, row) ==
    [i \in DOMAIN rs \cup {id} |-> IF i = id THEN [id |-> id] @@ row ELSE rs[i]]

\* id INTEGER PRIMARY KEY AUTOINCREMENT: one more than the largest id ever
\* handed out, which sqlite_sequence remembers across deletions.
NextIdReused(rs, sq) ==
    IF DOMAIN rs = {} THEN 1
    ELSE (CHOOSE i \in DOMAIN rs : \A j \in DOMAIN rs : j <= i) + 1

NextId(rs, sq) == sq + 1

\* SELECT id FROM print_requests WHERE phone = ? AND submitted_at = ?
\* then fetchone(): the first match in rowid order, or None (0 here).
SelectIdByPhoneTime(rs, phone, stamp) ==
    LET hits == {i \in DOMAIN rs : rs[i].phone = phone /\ rs[i].submitted_at = stamp}
    IN  IF hits = {} THEN 0 ELSE CHOOSE i \in hits : \A j \in hits : i <= j

\* init_db: CREATE TABLE IF NOT EXISTS print_requests, which leaves an
\* existing table and its rows alone.
InitDbRecreate(tbl, rs, initOk) ==
    [tbl |-> tbl \/ initOk, rs |-> IF initOk THEN <<>> ELSE rs]

InitDb(tbl, rs, initOk) == [tbl |-> tbl \/ initOk, rs |-> rs]

\* The two uploads of a submission: the screenshot is uploaded only when the
\* document's upload returned a link, and a missing link stops the run.
UploadFilesUnchecked(env) ==
    IF ~env.docUp THEN [uploads |-> 1, outcome |-> "document upload failed"]
    ELSE [uploads |-> 2, outcome |-> "uploaded"]

UploadFiles(env) ==
    IF ~env.docUp THEN [uploads |-> 1, outcome |-> "document upload failed"]
    ELSE IF ~env.shotUp THEN [uploads |-> 2, outcome |-> "screenshot upload failed"]
    ELSE [uploads |-> 2, outcome |-> "uploaded"]

\* The branches of the if/elif on request_type that a submission takes.
BranchesFallThrough(request_type) ==
    IF request_type = URGENT THEN {"whatsapp", "save"}
    ELSE IF request_type = PICKUP THEN {"save"}
    ELSE {}

Branches(request_type) ==
    IF request_type = URGENT THEN {"whatsapp"}
    ELSE IF request_type = PICKUP THEN {"save"}
    ELSE {}

\* What one run of the intake script does to the session and the store.
\* env: the outcomes of the calls the script makes to the outside
\*   initOk   - init_db's CREATE TABLE raised no sqlite3.Error
\*   docUp    - upload_to_drive returned a link for the document
\*   shotUp   - upload_to_drive returned a link for the screenshot
\*   insertOk - save_request's INSERT and commit raised no sqlite3.Error
\*   sameTick - the second datetime.now() in save_request read the same
\*              instant as the first
IntakeResult(ss0, in, env, tbl, rs, sq, t) ==
    LET ss1 == RenderForm(ss0, in)
        db == InitDb(tbl, rs, env.initOk)
        tbl1 == db.tbl
        rs0 == db.rs
        errors == ValidationErrors(ss1, in)
        up == UploadFiles(env)
        taken == Branches(in.request_type)
        failed == [ss1 EXCEPT !.form_submitted_successfully = FALSE]
        done == [ss1 EXCEPT !.form_submitted_successfully = TRUE]
        base == [ss |-> ss1, tbl |-> tbl1, rs |-> rs0, sq |-> sq, errors |-> {},
                 uploads |-> 0, inserts |-> 0, inserted |-> 0, request_id |-> 0,
                 link |-> FALSE, outcome |-> "rendered"]
        sent == [base EXCEPT !.ss = done, !.uploads = up.uploads,
                             !.link = "whatsapp" \in taken,
                             !.outcome = IF "whatsapp" \in taken THEN "whatsapp"
                                         ELSE "rendered"]
    IN  IF ~in.submit THEN base
        ELSE IF errors # {}
        THEN [base EXCEPT !.ss = failed, !.errors = errors, !.outcome = "invalid"]
        ELSE IF up.outcome # "uploaded"
        THEN [base EXCEPT !.ss = failed, !.uploads = up.uploads, !.outcome = up.outcome]
        ELSE IF "save" \notin taken THEN sent
        ELSE IF ~(tbl1 /\ env.insertOk)
        THEN [sent EXCEPT !.ss = failed, !.inserts = 1, !.outcome = "save failed"]
        ELSE LET id == NextId(rs0, sq)
                 rs1 == InsertRow(rs0, id, OrderRow(ss1, in, t))
                 request_id == IF env.sameTick
                               THEN SelectIdByPhoneTime(rs1, in.phone, IsoFormat(t))
                               ELSE 0
             IN  [sent EXCEPT !.ss = IF request_id # 0 THEN done ELSE failed,
                              !.rs = rs1, !.sq = id, !.inserts = 1,
                              !.inserted = id, !.request_id = request_id,
                              !.outcome = IF request_id # 0 THEN "saved" ELSE "save failed"]

AllOk == [initOk |-> TRUE, docUp |-> TRUE, shotUp |-> TRUE,
          insertOk |-> TRUE, sameTick |-> TRUE]

\* The outcomes considered: at most one call per run departs from AllOk.
Env == {AllOk,
        [AllOk EXCEPT !.initOk = FALSE], [AllOk EXCEPT !.docUp = FALSE],
        [AllOk EXCEPT !.shotUp = FALSE], [AllOk EXCEPT !.insertOk = FALSE],
        [AllOk EXCEPT !.sameTick = FALSE]}

\* The outcomes of a run in the lifecycle: those that bear on the table.
LifecycleEnv == {AllOk, [AllOk EXCEPT !.insertOk = FALSE],
                 [AllOk EXCEPT !.sameTick = FALSE]}

\* The calls a run makes: a page load, and a submission that validation
\* stops, call init_db only.
EnvOf(ss, in) ==
    IF in.submit /\ ValidationErrors(RenderForm(ss, in), in) = {}
    THEN Env
    ELSE {AllOk, [AllOk EXCEPT !.initOk = FALSE]}

IntakeRun(c, in, env) ==
    LET r == IntakeResult(cust[c], in, env, tableExists, rows, seq, now)
    IN  /\ env \in EnvOf(cust[c], in)
        /\ (in.submit /\ in.request_type = PICKUP) => seq < MaxOrders
        /\ cust' = [cust EXCEPT ![c] = r.ss]
        /\ tableExists' = r.tbl
        /\ rows' = r.rs
        /\ seq' = r.sq
        /\ lastOp' = IF in.submit
                     THEN [op |-> "intake", who |-> c, id |-> r.inserted, submit |-> TRUE,
                           request_type |-> in.request_type,
                           phone |-> in.phone, doc |-> in.doc, shot |-> in.shot,
                           parsed |-> in.doc.attached
                                        /\ in.doc.name # cust[c].current_doc_name,
                           docUp |-> env.docUp, shotUp |-> env.shotUp,
                           uploads |-> r.uploads, inserts |-> r.inserts,
                           request_id |-> r.request_id,
                           link |-> r.link, outcome |-> r.outcome]
                     ELSE [op |-> "intake", who |-> c, id |-> 0, submit |-> FALSE]
        /\ UNCHANGED <<now, admin, call>>

\* ------------------------------------------------------------ form inputs
NoFile == [attached |-> FALSE, name |-> None, readable |-> FALSE, pages |-> 0, size |-> 0]

GoodDoc(p) ==
    [attached |-> TRUE, name |-> "a.pdf", readable |-> TRUE, pages |-> p,
     size |-> MAX_DOC_SIZE_BYTES]

GoodShot ==
    [attached |-> TRUE, name |-> "paid.png", readable |-> TRUE, pages |-> 0,
     size |-> MAX_IMG_SIZE_BYTES]

\* The submissions of the lifecycle specification: complete Pickup forms with
\* a one-page document, in either layout.
LifecycleInputs ==
    [phone : {Rep("9", PHONE_DIGITS)}, doc : {GoodDoc(1)}, shot : {GoodShot},
     copies : {1}, is_color : {FALSE},
     print_layout : {"Single-sided", "Double-sided"},
     pages_per_sheet : {"1 page per side"},
     request_type : {PICKUP}, submit : {TRUE}]

DocChoices ==
    {NoFile}
    \cup {GoodDoc(p) : p \in 0..MaxPages}
    \cup {[GoodDoc(1) EXCEPT !.size = MAX_DOC_SIZE_BYTES + 1]}
    \cup {[attached |-> TRUE, name |-> "a.pdf", readable |-> FALSE, pages |-> 0,
           size |-> MAX_DOC_SIZE_BYTES]}

ShotChoices ==
    {NoFile, GoodShot, [GoodShot EXCEPT !.size = MAX_IMG_SIZE_BYTES + 1]}

\* st.text_input(max_chars=10): at most ten characters on one line.
PhoneChoices == {Rep("9", PHONE_DIGITS), Rep("9", PHONE_DIGITS - 1)}

\* The forms of the intake specification: every phone, document and
\* screenshot above; submissions of both request types and page loads (where
\* the request type is not read); the print preferences left at the widgets'
\* defaults.
IntakeInputs ==
    [phone : PhoneChoices, doc : DocChoices, shot : ShotChoices,
     copies : {1}, is_color : {FALSE},
     print_layout : {"Single-sided"},
     pages_per_sheet : {"1 page per side"},
     request_type : {URGENT, PICKUP}, submit : {TRUE}]
    \cup
    [phone : PhoneChoices, doc : DocChoices, shot : ShotChoices,
     copies : {1}, is_color : {FALSE},
     print_layout : {"Single-sided"},
     pages_per_sheet : {"1 page per side"},
     request_type : {URGENT}, submit : {FALSE}]

\* ------------------------------------------------------------ the admin panel
RowIds(list) == {list[k].id : k \in DOMAIN list}

\* Two switches say how much of a session the model follows.  In a session
\* that is observed, marked is the order whose "moved to Completed!" message
\* started the run (0 when there is none) and cutoff_time is kept from a sweep
\* that succeeded to the end of the run, so that the lists of a run can be
\* compared with the mark and the cutoff of the same run.  In a session that
\* is timed, elapsed is time.time() - session_state['last_fetch_time'] in
\* seconds and query_age is the time since the session last queried the
\* table, both counted up to POLL_INTERVAL ("POLL_INTERVAL or more"); the
\* script itself takes no time, seconds pass while it sleeps.  Elsewhere these
\* fields stay 0: both branches of the polling test fetch the same lists.
AdminStart ==
    [pc |-> "gate", authenticated |-> FALSE, clicked |-> 0,
     cutoff_time |-> <<>>, old_requests |-> <<>>,
     pending_requests |-> <<>>, completed_requests |-> <<>>,
     observed |-> FALSE, marked |-> 0,
     timed |-> FALSE, elapsed |-> 0, query_age |-> 0]

\* A rerun of the script: locals are gone, session_state stays.
Rerun(ad, button) ==
    [AdminStart EXCEPT !.pc = "sweep", !.authenticated = ad.authenticated,
                       !.clicked = button,
                       !.observed = ad.observed, !.timed = ad.timed,
                       !.elapsed = ad.elapsed, !.query_age = ad.query_age]

\* Line 87: password == st.secrets["admin_password"]
PasswordMatchesNonEmpty(password) == password # ""

PasswordMatches(password) == password = ADMIN_PASSWORD

\* check_password: the Login button compares the text with the secret; a
\* match sets the flag and reruns, a mismatch shows an error and the script
\* stops at the gate.
Login(a, password) ==
    /\ admin[a].pc = "gate"
    /\ ~admin[a].authenticated
    /\ admin' = [admin EXCEPT ![a] =
            IF PasswordMatches(password)
            THEN Rerun([admin[a] EXCEPT !.authenticated = TRUE], 0)
            ELSE admin[a]]
    /\ lastOp' = [op |-> "login", who |-> a, id |-> 0, password |-> password]
    /\ UNCHANGED <<now, tableExists, rows, seq, cust, call>>

\* clean_old_completed_requests, lines 18-27: the table check, the cutoff and
\* the SELECT.  The SELECT runs outside any transaction, so other connections
\* may commit between it and the DELETEs.
SweepSelect(a, dbOk) ==
    /\ admin[a].pc = "sweep"
    /\ admin' = [admin EXCEPT ![a] =
            IF dbOk /\ tableExists
            THEN [@ EXCEPT !.pc = "delete",
                           !.cutoff_time = CutoffTime(now),
                           !.old_requests = SelectOld(rows, CutoffTime(now))]
            ELSE [@ EXCEPT !.pc = "fetchP"]]
    /\ lastOp' = [op |-> "select", who |-> a, id |-> 0]
    /\ UNCHANGED <<now, tableExists, rows, seq, cust, call>>

\* clean_old_completed_requests, lines 28-37: the DELETEs and the commit are
\* one SQLite transaction, which takes effect as a whole at the commit; on a
\* sqlite3.Error the connection is closed uncommitted and nothing is deleted.
SweepDelete(a, dbOk) ==
    /\ admin[a].pc = "delete"
    /\ rows' = IF dbOk THEN DeleteIds(rows, admin[a].old_requests) ELSE rows
    /\ admin' = [admin EXCEPT ![a] =
            [@ EXCEPT !.pc = "fetchP",
                      !.cutoff_time = IF dbOk /\ admin[a].observed THEN @ ELSE <<>>,
                      !.old_requests = <<>>]]
    /\ lastOp' = [op |-> "sweep", who |-> a, id |-> 0, error |-> ~dbOk,
                  alone |-> lastOp = [op |-> "select", who |-> a, id |-> 0],
                  cutoff_time |-> admin[a].cutoff_time,
                  selected |-> admin[a].old_requests,
                  deleted |-> {rows[i] : i \in DOMAIN rows \ DOMAIN rows'}]
    /\ UNCHANGED <<now, tableExists, seq, cust, call>>

\* fetch_requests(status): [] when the table is missing or on a sqlite3.Error.
FetchRequests(rs, tbl, dbOk, status) ==
    IF dbOk /\ tbl THEN SelectByStatus(rs, status) ELSE <<>>

\* Lines 119-122: when POLL_INTERVAL or more has passed since last_fetch_time
\* it is set to the current time, otherwise it is left as it is.
LastFetchAge(ad) == IF ad.elapsed >= POLL_INTERVAL THEN 0 ELSE ad.elapsed

\* Lines 119-123 or 119-120 and 145: the polling test and the query of the
\* Pending list, which both branches of the test make.
FetchPending(a, dbOk) ==
    /\ admin[a].pc = "fetchP"
    /\ admin' = [admin EXCEPT ![a] =
            [@ EXCEPT !.pc = "fetchD",
                      !.elapsed = LastFetchAge(admin[a]),
                      !.query_age = 0,
                      !.pending_requests = FetchRequests(rows, tableExists, dbOk, "Pending")]]
    /\ lastOp' = Quiet
    /\ UNCHANGED <<now, tableExists, rows, seq, cust, call>>

\* Line 124 or 146.
FetchDone(a, dbOk) ==
    /\ admin[a].pc = "fetchD"
    /\ admin' = [admin EXCEPT ![a] =
            [@ EXCEPT !.pc = "render",
                      !.completed_requests = FetchRequests(rows, tableExists, dbOk, "Done")]]
    /\ lastOp' = Quiet
    /\ UNCHANGED <<now, tableExists, rows, seq, cust, call>>

\* mark_as_done(request_id): what it leaves in the table.
MarkAsDoneEveryRow(rs, tbl, dbOk, request_id) ==
    IF dbOk /\ tbl THEN [i \in DOMAIN rs |-> [rs[i] EXCEPT !.status = "Done"]] ELSE rs

MarkAsDone(rs, tbl, dbOk, request_id) ==
    IF dbOk /\ tbl THEN UpdateDone(rs, request_id) ELSE rs

\* What mark_as_done hands back to its caller: it has no return statement
\* on any path, so the caller always receives None.
MarkAsDoneReturn(rs, tbl, dbOk, request_id) == None

\* Lines 169-172: whether the page announces "moved to Completed!" after the
\* call.  The handler does not look at what mark_as_done returned.
Announces(returned) == TRUE

\* Lines 148-172: the page is drawn; the "Mark as Done" button of a listed
\* pending row reads True in the run its click started, and then
\* mark_as_done runs, the success message is shown and the script reruns.
RenderMark(a, dbOk) ==
    /\ admin[a].pc = "render"
    /\ admin[a].clicked \in RowIds(admin[a].pending_requests)
    /\ rows' = MarkAsDone(rows, tableExists, dbOk, admin[a].clicked)
    /\ admin' = [admin EXCEPT ![a] =
            [Rerun(@, 0) EXCEPT !.marked = IF admin[a].observed /\ rows' # rows
                                           THEN admin[a].clicked ELSE 0]]
    /\ lastOp' = [op |-> "mark_as_done", who |-> a, id |-> admin[a].clicked,
                  error |-> ~(dbOk /\ tableExists), dbOk |-> dbOk,
                  changed |-> rows' # rows,
                  before |-> IF admin[a].clicked \in DOMAIN rows
                             THEN rows[admin[a].clicked].status ELSE "absent",
                  after |-> IF admin[a].clicked \in DOMAIN rows'
                            THEN rows'[admin[a].clicked].status ELSE "absent",
                  returned |-> MarkAsDoneReturn(rows, tableExists, dbOk, admin[a].clicked),
                  announced |-> Announces(
                      MarkAsDoneReturn(rows, tableExists, dbOk, admin[a].clicked))]
    /\ UNCHANGED <<now, tableExists, seq, cust, call>>

\* Line 200: current_time - last_fetch_time < POLL_INTERVAL, the test that
\* guards the sleep and the rerun at the end of the script.
SleepsThenRerunsWhenStale(ad) == ad.elapsed > 0

SleepsThenReruns(ad) == ad.elapsed < POLL_INTERVAL

\* Lines 148-202 when no listed button reads True: both lists are drawn and
\* the script sleeps at its end; were the test of line 200 false, the script
\* would end with no rerun scheduled and the page would stay as drawn.
RenderIdle(a) ==
    /\ admin[a].pc = "render"
    /\ admin[a].clicked \notin RowIds(admin[a].pending_requests)
    /\ admin' = [admin EXCEPT ![a] =
            [@ EXCEPT !.pc = IF SleepsThenReruns(admin[a]) THEN "idle" ELSE "stopped",
                      !.clicked = 0, !.marked = 0, !.cutoff_time = <<>>]]
    /\ lastOp' = Quiet
    /\ UNCHANGED <<now, tableExists, rows, seq, cust, call>>

\* Line 201: a second of time.sleep(POLL_INTERVAL - (current_time -
\* last_fetch_time)) passes.
Wait(a) ==
    /\ admin[a].pc = "idle"
    /\ admin[a].timed
    /\ admin[a].elapsed < POLL_INTERVAL
    /\ admin' = [admin EXCEPT ![a] =
            [@ EXCEPT !.elapsed = @ + 1,
                      !.query_age = IF @ < POLL_INTERVAL THEN @ + 1 ELSE @]]
    /\ lastOp' = Quiet
    /\ UNCHANGED <<now, tableExists, rows, seq, cust, call>>

\* Line 202: st.rerun() after the sleep, which ends when POLL_INTERVAL has
\* passed since last_fetch_time.
PollRerun(a) ==
    /\ admin[a].pc = "idle"
    /\ admin[a].timed => admin[a].elapsed >= POLL_INTERVAL
    /\ admin' = [admin EXCEPT ![a] = Rerun(@, 0)]
    /\ lastOp' = Quiet
    /\ UNCHANGED <<now, tableExists, rows, seq, cust, call>>

\* The operator presses "Mark as Done" on a row of the page on screen, which
\* starts a run of the script with that button set.
Click(a, id) ==
    /\ admin[a].pc \in {"idle", "stopped"}
    /\ id \in RowIds(admin[a].pending_requests)
    /\ admin' = [admin EXCEPT ![a] = Rerun(@, id)]
    /\ lastOp' = Quiet
    /\ UNCHANGED <<now, tableExists, rows, seq, cust, call>>

\* ------------------------------------------------------------ the clock
TickSteps == {RETENTION_HOURS, RETENTION_HOURS + 1}

Tick(d) ==
    /\ now + d <= MaxTime
    /\ now' = now + d
    /\ lastOp' = Quiet
    /\ UNCHANGED <<tableExists, rows, seq, admin, cust, call>>

\* ------------------------------------------------------------ the system
NoCall == [fn |-> None, done |-> FALSE, result |-> 0]

SessionStart ==
    [page_count |-> 0, total_price |-> 0, form_submitted_successfully |-> FALSE,
     current_doc_name |-> None, current_ss_name |-> None]

Init ==
    /\ now = RETENTION_HOURS
    /\ tableExists = FALSE
    /\ rows = <<>>
    /\ seq = 0
    /\ admin = [a \in Admins |-> AdminStart]
    /\ cust = [c \in Customers |-> SessionStart]
    /\ lastOp = Quiet
    /\ call = NoCall

Next ==
    \/ \E d \in TickSteps : Tick(d)
    \/ \E c \in Customers, in \in LifecycleInputs, env \in LifecycleEnv : IntakeRun(c, in, env)
    \/ \E a \in Admins, password \in {ADMIN_PASSWORD, "guess"} : Login(a, password)
    \/ \E a \in Admins, dbOk \in BOOLEAN : SweepSelect(a, dbOk)
    \/ \E a \in Admins, dbOk \in BOOLEAN : SweepDelete(a, dbOk)
    \/ \E a \in Admins, dbOk \in BOOLEAN : FetchPending(a, dbOk)
    \/ \E a \in Admins, dbOk \in BOOLEAN : FetchDone(a, dbOk)
    \/ \E a \in Admins, dbOk \in BOOLEAN : RenderMark(a, dbOk)
    \/ \E a \in Admins : RenderIdle(a)
    \/ \E a \in Admins : PollRerun(a)
    \/ \E a \in Admins, id \in 1..MaxOrders : Click(a, id)

Spec == Init /\ [][Next]_vars

\* The intake form alone: one customer session and the table.
NextIntake ==
    \E c \in Customers, in \in IntakeInputs, env \in Env : IntakeRun(c, in, env)

SpecIntake == Init /\ [][NextIntake]_vars

\* The table with every kind of intake run and one admin session: page
\* loads, Urgent and Pickup submissions of a complete form, the clock, and the
\* sweeps, fetches and marks of one operator.
StoreInputs ==
    [phone : {Rep("9", PHONE_DIGITS)}, doc : {GoodDoc(1)}, shot : {GoodShot},
     copies : {1}, is_color : {FALSE},
     print_layout : {"Single-sided"},
     pages_per_sheet : {"1 page per side"},
     request_type : {URGENT, PICKUP}, submit : BOOLEAN]

StoreEnv == {AllOk, [AllOk EXCEPT !.initOk = FALSE], [AllOk EXCEPT !.insertOk = FALSE]}

StoreAdmins == {"a1"}

NextStore ==
    \/ \E d \in TickSteps : Tick(d)
    \/ \E c \in Customers, in \in StoreInputs, env \in StoreEnv : IntakeRun(c, in, env)
    \/ \E a \in StoreAdmins, password \in {ADMIN_PASSWORD, "guess"} : Login(a, password)
    \/ \E a \in StoreAdmins, dbOk \in BOOLEAN : SweepSelect(a, dbOk)
    \/ \E a \in StoreAdmins, dbOk \in BOOLEAN : SweepDelete(a, dbOk)
    \/ \E a \in StoreAdmins, dbOk \in BOOLEAN : FetchPending(a, dbOk)
    \/ \E a \in StoreAdmins, dbOk \in BOOLEAN : FetchDone(a, dbOk)
    \/ \E a \in StoreAdmins, dbOk \in BOOLEAN : RenderMark(a, dbOk)
    \/ \E a \in StoreAdmins : RenderIdle(a)
    \/ \E a \in StoreAdmins : PollRerun(a)
    \/ \E a \in StoreAdmins, id \in 1..MaxOrders : Click(a, id)

SpecStore == Init /\ [][NextStore]_vars

\* Polling: one operator session that is observed and timed, with a database
\* that raises no error on the admin side.  Lines 108-109 start the session
\* with last_fetch_time = 0, which is POLL_INTERVAL or more before any
\* reading of time.time().
InitPoll ==
    /\ now = RETENTION_HOURS
    /\ tableExists = FALSE
    /\ rows = <<>>
    /\ seq = 0
    /\ admin = [a \in Admins |->
            IF a \in StoreAdmins
            THEN [AdminStart EXCEPT !.observed = TRUE, !.timed = TRUE,
                                    !.elapsed = POLL_INTERVAL,
                                    !.query_age = POLL_INTERVAL]
            ELSE AdminStart]
    /\ cust = [c \in Customers |-> SessionStart]
    /\ lastOp = Quiet
    /\ call = NoCall

\* The steps the script takes by itself once it runs: the statements of a
\* run, the seconds of its sleep and the rerun that follows.
PollScript ==
    \E a \in StoreAdmins :
        \/ SweepSelect(a, TRUE)
        \/ SweepDelete(a, TRUE)
        \/ FetchPending(a, TRUE)
        \/ FetchDone(a, TRUE)
        \/ RenderMark(a, TRUE)
        \/ RenderIdle(a)
        \/ Wait(a)
        \/ PollRerun(a)

NextPoll ==
    \/ \E d \in TickSteps : Tick(d)
    \/ \E c \in Customers, in \in StoreInputs, env \in StoreEnv : IntakeRun(c, in, env)
    \/ \E a \in StoreAdmins, password \in {ADMIN_PASSWORD, "guess"} : Login(a, password)
    \/ \E a \in StoreAdmins : SweepSelect(a, TRUE)
    \/ \E a \in StoreAdmins : SweepDelete(a, TRUE)
    \/ \E a \in StoreAdmins : FetchPending(a, TRUE)
    \/ \E a \in StoreAdmins : FetchDone(a, TRUE)
    \/ \E a \in StoreAdmins : RenderMark(a, TRUE)
    \/ \E a \in StoreAdmins : RenderIdle(a)
    \/ \E a \in StoreAdmins : Wait(a)
    \/ \E a \in StoreAdmins : PollRerun(a)
    \/ \E a \in StoreAdmins, id \in 1..MaxOrders : Click(a, id)

\* Streamlit runs a script to its end, time.sleep returns and st.rerun()
\* starts the next run: a step of the script that stays possible is taken.
SpecPoll == InitPoll /\ [][NextPoll]_vars /\ WF_vars(PollScript)

\* Two admin sessions on one table, the first of them observed: Pickup
\* submissions of one complete form, the clock, and the sweeps, fetches and
\* marks of both sessions in any interleaving, with and without database
\* errors.
InitRace ==
    /\ now = RETENTION_HOURS
    /\ tableExists = FALSE
    /\ rows = <<>>
    /\ seq = 0
    /\ admin = [a \in Admins |->
            IF a \in StoreAdmins THEN [AdminStart EXCEPT !.observed = TRUE]
            ELSE AdminStart]
    /\ cust = [c \in Customers |-> SessionStart]
    /\ lastOp = Quiet
    /\ call = NoCall

RaceInputs == {in \in StoreInputs : in.request_type = PICKUP /\ in.submit}

NextRace ==
    \/ \E d \in TickSteps : Tick(d)
    \/ \E c \in Customers, in \in RaceInputs : IntakeRun(c, in, AllOk)
    \/ \E a \in Admins : Login(a, ADMIN_PASSWORD)
    \/ \E a \in Admins, dbOk \in BOOLEAN : SweepSelect(a, dbOk)
    \/ \E a \in Admins, dbOk \in BOOLEAN : SweepDelete(a, dbOk)
    \/ \E a \in Admins, dbOk \in BOOLEAN : FetchPending(a, dbOk)
    \/ \E a \in Admins, dbOk \in BOOLEAN : FetchDone(a, dbOk)
    \/ \E a \in Admins, dbOk \in BOOLEAN : RenderMark(a, dbOk)
    \/ \E a \in Admins : RenderIdle(a)
    \/ \E a \in Admins : PollRerun(a)
    \/ \E a \in Admins, id \in 1..MaxOrders : Click(a, id)

SpecRace == InitRace /\ [][NextRace]_vars

\* ------------------------------------------------------------ calculate_price alone
PriceArgs ==
    [page_count : PdfNone..MaxPricePages, copies : 0..MaxCopies, is_color : BOOLEAN,
     print_layout : {"Single-sided", "Double-sided"},
     pages_per_sheet : {"1 page per side", "2 pages per side"}]

InitPrice ==
    /\ now = RETENTION_HOURS
    /\ tableExists = FALSE
    /\ rows = <<>>
    /\ seq = 0
    /\ admin = [a \in Admins |-> AdminStart]
    /\ cust = [c \in Customers |-> SessionStart]
    /\ lastOp = Quiet
    /\ \E args \in PriceArgs :
          call = [fn |-> "calculate_price", done |-> FALSE, result |-> 0, args |-> args]

\* The call as the form makes it (line 297): pages_per_sheet is not passed.
CallCalculatePrice ==
    /\ call.fn = "calculate_price"
    /\ ~call.done
    /\ call' = [call EXCEPT !.done = TRUE,
                            !.result = CalculatePrice(call.args.page_count, call.args.copies,
                                                      call.args.is_color, call.args.print_layout)]
    /\ UNCHANGED <<now, tableExists, rows, seq, admin, cust, lastOp>>

NextPrice == CallCalculatePrice

SpecPrice == InitPrice /\ [][NextPrice]_vars

\* ------------------------------------------------------------ validate_phone alone
\* The strings tried: the first n characters of "98765432100...", as they
\* are or with one character replaced by a letter, a space, a newline or a
\* decimal digit outside ASCII.
PhoneBase(n) == [i \in 1..n |-> IF i <= 9 THEN ToString(10 - i) ELSE "0"]

PhoneStrings ==
    {PhoneBase(n) : n \in 0..MaxPhoneLen}
    \cup UNION {{[PhoneBase(n) EXCEPT ![k] = ch] :
                    k \in 1..n, ch \in {"a", " ", "LF"} \cup OtherDigits} :
                n \in 1..MaxPhoneLen}

InitPhone ==
    /\ now = RETENTION_HOURS
    /\ tableExists = FALSE
    /\ rows = <<>>
    /\ seq = 0
    /\ admin = [a \in Admins |-> AdminStart]
    /\ cust = [c \in Customers |-> SessionStart]
    /\ lastOp = Quiet
    /\ \E phone \in PhoneStrings :
          call = [fn |-> "validate_phone", done |-> FALSE, result |-> FALSE,
                  args |-> [phone |-> phone]]

CallValidatePhone ==
    /\ call.fn = "validate_phone"
    /\ ~call.done
    /\ call' = [call EXCEPT !.done = TRUE, !.result = ValidatePhone(call.args.phone)]
    /\ UNCHANGED <<now, tableExists, rows, seq, admin, cust, lastOp>>

NextPhone == CallValidatePhone

SpecPhone == InitPhone /\ [][NextPhone]_vars

\* ------------------------------------------------------------ properties

\* C1: the status of a stored request only ever moves forward.  In every
\* step of every interleaving of intake runs, admin sessions and the clock, a
\* row that stays in the table keeps its status or goes from Pending to Done
\* (never from Done back to Pending), a row that appears is Pending and
\* carries an id larger than every id handed out before, so a deleted row is
\* never created again.
C1_StatusMonotonic ==
    [][ /\ \A i \in DOMAIN rows \cap DOMAIN rows' :
             \/ rows'[i].status = rows[i].status
             \/ rows[i].status = "Pending" /\ rows'[i].status = "Done"
        /\ \A i \in DOMAIN rows' \ DOMAIN rows :
             i > seq /\ rows'[i].status = "Pending"
        /\ \A i \in DOMAIN rows : i <= seq
        /\ seq' >= seq ]_vars

\* A request went Pending, Done, deleted, and a later order took a new id.
C1_Witness ==
    /\ lastOp.op = "intake"
    /\ lastOp.id = 2
    /\ 1 \notin DOMAIN rows
    /\ 2 \in DOMAIN rows
    /\ rows[2].status = "Pending"

\* C2: whatever the interleaving of sweeps, marks, intake runs and clock
\* steps, every row that leaves the table has status Done at the moment it
\* leaves; a Pending row is never removed, however old it is.
C2_PendingNeverDeleted ==
    [][ \A i \in DOMAIN rows \ DOMAIN rows' : rows[i].status = "Done" ]_vars

\* A sweep has just deleted a row while a Pending row older than the
\* retention period stays in the table.
C2_Witness ==
    /\ lastOp.op = "sweep"
    /\ lastOp.deleted # {}
    /\ \E i \in DOMAIN rows :
          /\ rows[i].status = "Pending"
          /\ rows[i].submitted_at[1] * 10 + rows[i].submitted_at[2] + 12 < now

\* C3: a sweep that runs alone (its DELETEs directly follow its SELECT, with
\* no other operation and no clock step between them) and meets no database
\* error deletes exactly the rows that are Done and were submitted strictly
\* more than twelve hours before now; every other row stays, unchanged.
\* (A stored timestamp is two decimal digits of hours.)
C3_SweepPostcondition ==
    [][ \A a \in Admins :
          ( /\ admin[a].pc = "delete"
            /\ lastOp = [op |-> "select", who |-> a, id |-> 0]
            /\ lastOp'.op = "sweep"
            /\ lastOp'.who = a
            /\ ~lastOp'.error )
          => rows' = [i \in {j \in DOMAIN rows :
                                ~(/\ rows[j].status = "Done"
                                  /\ rows[j].submitted_at[1] * 10
                                       + rows[j].submitted_at[2] + 12 < now)}
                        |-> rows[i]] ]_vars

\* A sweep that ran alone deleted a Done row and kept a younger Done row.
C3_Witness ==
    /\ lastOp.op = "sweep"
    /\ ~lastOp.error
    /\ lastOp.alone
    /\ \E r \in lastOp.deleted : r.submitted_at[1] * 10 + r.submitted_at[2] + 12 < now
    /\ \E i \in DOMAIN rows : rows[i].status = "Done"

\* C4: mark_as_done is idempotent.  Calling it twice on a row leaves the
\* table as one call does, and a call on a row that is already Done changes
\* nothing in the table and raises no error.
C4_MarkIdempotent ==
    /\ \A id \in 1..MaxOrders, dbOk \in BOOLEAN :
          MarkAsDone(MarkAsDone(rows, tableExists, dbOk, id), tableExists, dbOk, id)
            = MarkAsDone(rows, tableExists, dbOk, id)
    /\ (lastOp.op = "mark_as_done" /\ lastOp.before = "Done" /\ lastOp.dbOk)
          => /\ ~lastOp.error
             /\ ~lastOp.changed
             /\ lastOp.after = "Done"

\* mark_as_done ran without error on a row another session had already
\* marked Done.
C4_Witness ==
    /\ lastOp.op = "mark_as_done"
    /\ lastOp.before = "Done"
    /\ ~lastOp.error

\* C5: the page announces "moved to Completed" only when the update took
\* effect: the call met no error and the row is Done in the table after it.
C5_AnnounceOnlyOnSuccess ==
    (lastOp.op = "mark_as_done" /\ lastOp.announced)
        => (~lastOp.error /\ lastOp.after = "Done")

\* C6: Urgent and Pickup are exclusive outcomes of a validated, uploaded
\* submission.  An Urgent submission attempts no insert, leaves every row of
\* the table as it was and emits the WhatsApp link; a Pickup submission
\* attempts exactly one insert, which adds at most one row, of status
\* Pending, and emits no link; no submission both inserts and emits a link.
C6_UrgentPickupExclusive ==
    [][ LET o == lastOp'
        IN  ( /\ o.op = "intake"
              /\ o.submit
              /\ o.outcome \notin {"invalid", "document upload failed",
                                   "screenshot upload failed"} )
            => /\ o.request_type = URGENT
                    => /\ o.inserts = 0
                       /\ o.link
                       /\ rows' = rows
                       /\ seq' = seq
               /\ o.request_type = PICKUP
                    => /\ o.inserts = 1
                       /\ ~o.link
                       /\ \/ rows' = rows
                          \/ /\ o.id \notin DOMAIN rows
                             /\ DOMAIN rows' = DOMAIN rows \cup {o.id}
                             /\ rows'[o.id].status = "Pending"
                             /\ \A i \in DOMAIN rows : rows'[i] = rows[i]
               /\ ~(o.link /\ o.inserts > 0) ]_vars

\* An Urgent submission was sent by WhatsApp while the table, filled by an
\* earlier Pickup submission, holds a row.
C6_Witness ==
    /\ lastOp.op = "intake"
    /\ lastOp.submit
    /\ lastOp.request_type = URGENT
    /\ lastOp.link
    /\ lastOp.uploads = 2
    /\ DOMAIN rows # {}

\* C7: when the upload of the document or of the screenshot returns no
\* link, the submission is aborted: no insert is attempted, no row is added,
\* no WhatsApp link is emitted and form_submitted_successfully is False.
C7_UploadFailureAborts ==
    ( /\ lastOp.op = "intake"
      /\ lastOp.submit
      /\ \/ lastOp.uploads >= 1 /\ ~lastOp.docUp
         \/ lastOp.uploads >= 2 /\ ~lastOp.shotUp )
    => /\ lastOp.inserts = 0
       /\ lastOp.id = 0
       /\ ~lastOp.link
       /\ ~cust[lastOp.who].form_submitted_successfully

\* The document was uploaded and the upload of the screenshot failed.
C7_Witness ==
    /\ lastOp.op = "intake"
    /\ lastOp.submit
    /\ lastOp.uploads = 2
    /\ lastOp.docUp
    /\ ~lastOp.shotUp
    /\ lastOp.outcome = "screenshot upload failed"

\* C8: a submission issues an upload, attempts an insert or emits a link
\* only when its phone is valid, its attached document has a page count
\* above 0 and at most 10 MB, and its attached screenshot has at most 5 MB;
\* every row of the table has a valid phone, pages > 0 and copies >= 1.
C8_ValidationGatesEffects ==
    /\ ( /\ lastOp.op = "intake"
         /\ lastOp.submit
         /\ (lastOp.uploads > 0 \/ lastOp.inserts > 0 \/ lastOp.link) )
       => /\ ValidatePhone(lastOp.phone)
          /\ lastOp.doc.attached
          /\ GetPdfPageCount(lastOp.doc) # PdfNone
          /\ GetPdfPageCount(lastOp.doc) > 0
          /\ lastOp.doc.size <= 10 * 1024 * 1024
          /\ lastOp.shot.attached
          /\ lastOp.shot.size <= 5 * 1024 * 1024
    /\ \A i \in DOMAIN rows :
          /\ ValidatePhone(rows[i].phone)
          /\ rows[i].pages > 0
          /\ rows[i].copies >= 1

\* C9: for pages > 0 and copies > 0 calculate_price returns
\* pages * unit * mult * copies, with unit 5.00 in colour and 2.00 otherwise
\* and mult 0.5 double-sided and 1.0 otherwise (amounts in hundredths): 10
\* pages in 2 copies in colour cost 100.00 single-sided and 50.00
\* double-sided.  The pages_per_sheet choice has no influence.
C9_PriceFormula ==
    call.done =>
        LET a == call.args
            unit == IF a.is_color THEN 500 ELSE 200
            halves == IF a.print_layout = "Double-sided" THEN 1 ELSE 2
        IN  /\ (a.page_count > 0 /\ a.copies > 0)
                  => 2 * call.result = a.page_count * unit * halves * a.copies
            /\ (a.page_count = 10 /\ a.copies = 2 /\ a.is_color)
                  => call.result = IF a.print_layout = "Single-sided"
                                   THEN 10000 ELSE 5000

\* The worked example, double-sided, asked with two pages per side.
C9_Witness ==
    /\ call.done
    /\ call.args.page_count = 10
    /\ call.args.copies = 2
    /\ call.args.is_color
    /\ call.args.print_layout = "Double-sided"
    /\ call.args.pages_per_sheet = "2 pages per side"
    /\ call.result = 5000

\* C11: for pages > 0 and copies > 0 and either colour setting, the
\* double-sided price is half the single-sided price of the same pages,
\* copies and colour.
C11_DoubleIsHalfOfSingle ==
    LET a == call.args
    IN  ( /\ call.fn = "calculate_price"
          /\ call.done
          /\ a.page_count > 0
          /\ a.copies > 0
          /\ a.print_layout = "Double-sided" )
        => /\ 2 * call.result
                = CalculatePrice(a.page_count, a.copies, a.is_color, "Single-sided")
           /\ call.result > 0

\* A double-sided black-and-white price has been computed: 3 pages in 2
\* copies cost 6.00, half of 12.00.
C11_Witness ==
    /\ call.fn = "calculate_price"
    /\ call.done
    /\ call.args.page_count = 3
    /\ call.args.copies = 2
    /\ ~call.args.is_color
    /\ call.args.print_layout = "Double-sided"
    /\ call.result = 600

\* C12 as the spec states it: for any pages, copies and layout the colour
\* price divided by the black-and-white price is 5.0/2.0.  A quotient is a
\* value only when the divisor is not zero.
C12_RatioForAnyInputs ==
    LET a == call.args
        bw == CalculatePrice(a.page_count, a.copies, FALSE, a.print_layout)
    IN  (call.fn = "calculate_price" /\ call.done /\ a.is_color)
        => /\ bw # 0
           /\ 2 * call.result = 5 * bw

\* C12, amended: for pages > 0 and copies > 0 and either layout the
\* black-and-white price is not zero and the colour price divided by it is
\* 5.0/2.0.
C12_RatioForPricedInputs ==
    LET a == call.args
        bw == CalculatePrice(a.page_count, a.copies, FALSE, a.print_layout)
    IN  ( /\ call.fn = "calculate_price"
          /\ call.done
          /\ a.is_color
          /\ a.page_count > 0
          /\ a.copies > 0 )
        => /\ bw # 0
           /\ 2 * call.result = 5 * bw

\* A colour price has been computed for 4 pages in 1 copy, double-sided:
\* 10.00 against 4.00 in black and white.
C12_Witness ==
    /\ call.fn = "calculate_price"
    /\ call.done
    /\ call.args.is_color
    /\ call.args.page_count = 4
    /\ call.args.copies = 1
    /\ call.args.print_layout = "Double-sided"
    /\ call.result = 1000

\* C13: calculate_price returns 0 when the page count is unknown or not
\* positive or the copies are not positive, whatever the colour and layout,
\* and a strictly positive price for all other inputs.
C13_ZeroExactlyWhenNothingToPrice ==
    LET a == call.args
    IN  (call.fn = "calculate_price" /\ call.done)
        => IF a.page_count = PdfNone \/ a.page_count <= 0 \/ a.copies <= 0
           THEN call.result = 0
           ELSE call.result > 0

\* The price of a document whose page count is unknown was asked for, in
\* colour and double-sided, and is 0.
C13_Witness ==
    /\ call.fn = "calculate_price"
    /\ call.done
    /\ call.args.page_count = PdfNone
    /\ call.args.copies = 2
    /\ call.args.is_color
    /\ call.args.print_layout = "Double-sided"
    /\ call.result = 0

\* C14: validate_phone accepts a string exactly when it consists of ten
\* ASCII digits; it rejects shorter and longer strings and strings holding a
\* letter, a space, a newline or a digit outside ASCII.
C14_TenAsciiDigitsOnly ==
    (call.fn = "validate_phone" /\ call.done)
        => ( call.result
             <=> /\ Len(call.args.phone) = 10
                 /\ \A i \in 1..Len(call.args.phone) :
                       call.args.phone[i] \in {"0", "1", "2", "3", "4",
                                               "5", "6", "7", "8", "9"} )

\* C15: an unreadable document is kept apart from a zero-page document.
\* After a run that parsed the attached document, the session's page count
\* is unknown (None) when the parsing failed and is the document's page
\* count, 0 for a zero-page document, when it succeeded.
C15_UnreadableIsNotZero ==
    (lastOp.op = "intake" /\ lastOp.submit /\ lastOp.parsed)
        => cust[lastOp.who].page_count
             = IF lastOp.doc.readable THEN lastOp.doc.pages ELSE PdfNone

\* C16: the customer-facing side only appends.  A run of the intake script
\* leaves every row of the table in place and unchanged and adds at most one
\* row, of status Pending; a row leaves the table only in a retention sweep,
\* and a row changes only in mark_as_done, which changes its status alone.
C16_IntakeAppendOnly ==
    [][ /\ \A i \in DOMAIN rows \ DOMAIN rows' : lastOp'.op = "sweep"
        /\ \A i \in DOMAIN rows \cap DOMAIN rows' :
              rows'[i] # rows[i]
                 => /\ lastOp'.op = "mark_as_done"
                    /\ rows'[i] = [rows[i] EXCEPT !.status = "Done"]
        /\ lastOp'.op = "intake"
              => /\ \A i \in DOMAIN rows : i \in DOMAIN rows' /\ rows'[i] = rows[i]
                 /\ Cardinality(DOMAIN rows' \ DOMAIN rows) <= 1
                 /\ \A i \in DOMAIN rows' \ DOMAIN rows : rows'[i].status = "Pending"
                 /\ tableExists => tableExists' ]_vars

\* An Urgent submission ran on a table that holds a Done row and a
\* Pending row, and left both.
C16_Witness ==
    /\ lastOp.op = "intake"
    /\ lastOp.submit
    /\ lastOp.request_type = URGENT
    /\ lastOp.link
    /\ DOMAIN rows = {1, 2}
    /\ rows[1].status = "Done"
    /\ rows[2].status = "Pending"

\* C17: the admin gate.  A session that is not authenticated is at the
\* password prompt and nowhere else, so it runs no sweep, fetch or mark; the
\* flag becomes True only in a Login whose password is the configured one; a
\* Login with another password leaves the flag False and the session at the
\* prompt; once True the flag stays True.
C17_AuthenticationGate ==
    [][ \A a \in Admins :
          /\ ~admin[a].authenticated => admin[a].pc = "gate"
          /\ admin[a].pc # admin'[a].pc => admin'[a].authenticated
          /\ (~admin[a].authenticated /\ admin'[a].authenticated)
                => /\ lastOp'.op = "login"
                   /\ lastOp'.who = a
                   /\ lastOp'.password = "admin_password"
          /\ (lastOp'.op = "login" /\ lastOp'.who = a
                /\ lastOp'.password # "admin_password" /\ ~admin[a].authenticated)
                => /\ ~admin'[a].authenticated
                   /\ admin'[a].pc = "gate"
          /\ admin[a].authenticated => admin'[a].authenticated
          /\ (lastOp'.op \in {"select", "sweep", "mark_as_done"})
                => admin[lastOp'.who].authenticated ]_vars

\* One session has marked an order Done after logging in while the other,
\* whose last Login used a wrong password, is still at the prompt.
C17_Witness ==
    /\ lastOp.op = "login"
    /\ lastOp.who = "a2"
    /\ lastOp.password = "guess"
    /\ ~admin["a2"].authenticated
    /\ admin["a1"].authenticated
    /\ \E i \in DOMAIN rows : rows[i].status = "Done"

\* C18: order ids are unique and immutable over the whole history.  Every
\* row is stored under its own id, a new row takes an id above every id ever
\* handed out (so no id is shared or handed out again after a purge), and no
\* step changes the id or submitted_at of a row that stays in the table.
C18_IdsUniqueAndImmutable ==
    [][ /\ \A i \in DOMAIN rows' : rows'[i].id = i
        /\ \A i \in DOMAIN rows \cap DOMAIN rows' :
              /\ rows'[i].id = rows[i].id
              /\ rows'[i].submitted_at = rows[i].submitted_at
        /\ \A i \in DOMAIN rows' \ DOMAIN rows : seq < i /\ i <= seq'
        /\ \A i \in DOMAIN rows : i <= seq
        /\ seq <= seq' ]_vars

\* Order 1 has been purged and order 2, created later, has been marked Done
\* under its own id and timestamp.
C18_Witness ==
    /\ lastOp.op = "mark_as_done"
    /\ lastOp.id = 2
    /\ lastOp.before = "Pending"
    /\ DOMAIN rows = {2}
    /\ rows[2].id = 2
    /\ rows[2].status = "Done"
    /\ rows[2].submitted_at = IsoFormat(now)

\* C19: the outcome of a Pickup submission matches what was persisted.  A
\* submission that reached save_request reports success and sets
\* form_submitted_successfully exactly when its row was inserted, and reports
\* the failure to save only when no row was inserted.
C19_PickupOutcomeMatchesPersistence ==
    (lastOp.op = "intake" /\ lastOp.submit /\ lastOp.inserts = 1)
        => /\ (lastOp.outcome = "saved"
                 /\ cust[lastOp.who].form_submitted_successfully)
              <=> lastOp.id # 0
           /\ lastOp.outcome = "save failed" => lastOp.id = 0

\* C20: the page count in use belongs to the attached document.  For every
\* submission that emitted a link or inserted a row, the session's page
\* count, and the pages of the inserted row, are the page count of the file
\* attached in that submission.
C20_PageCountOfAttachedFile ==
    ( /\ lastOp.op = "intake"
      /\ lastOp.submit
      /\ (lastOp.link \/ lastOp.id # 0) )
    => /\ cust[lastOp.who].page_count = GetPdfPageCount(lastOp.doc)
       /\ lastOp.id # 0 => rows[lastOp.id].pages = GetPdfPageCount(lastOp.doc)

\* C10: the price stored with a request is the price calculate_price gives
\* for the pages, copies, colour flag and layout stored in the same row, and
\* no later operation changes the price of a row that stays in the table.
C10_PriceSnapshot ==
    [][ \A i \in DOMAIN rows' :
          /\ rows'[i].price = CalculatePrice(rows'[i].pages, rows'[i].copies,
                                             rows'[i].is_color, rows'[i].Layout)
          /\ i \in DOMAIN rows => rows'[i].price = rows[i].price ]_vars

\* A double-sided order has been marked Done and still carries its price.
C10_Witness ==
    \E i \in DOMAIN rows :
        /\ rows[i].status = "Done"
        /\ rows[i].Layout = "Double-sided"
        /\ rows[i].price = 100

C22_MarkedOrderMovesToCompleted ==
    \A a \in Admins :
        (admin[a].pc = "render" /\ admin[a].marked # 0)
            => /\ admin[a].marked \in RowIds(admin[a].completed_requests)
               /\ admin[a].marked \notin RowIds(admin[a].pending_requests)

\* C23: a page load whose sweep succeeded renders a Completed list with no
\* order submitted before the cutoff (now - 12h) that the sweep of the same
\* load used, also when a second admin session marks orders Done or sweeps
\* between this load's sweep and its fetch.
C23_CompletedListWithinRetention ==
    \A a \in Admins :
        (admin[a].pc = "render" /\ admin[a].cutoff_time # <<>>)
            => \A k \in 1..Len(admin[a].completed_requests) :
                  ~StrLess(admin[a].completed_requests[k].submitted_at,
                           admin[a].cutoff_time)

\* C24: polling liveness.  In an authenticated session whose database raises
\* no error, every run of the script fetches the lists and ends in the sleep
\* that is followed by a rerun, so the table is queried again and again; an
\* order that is Pending in the table is eventually in the Incomplete list of
\* a page (unless it has been marked Done by then), and every fetch of the
\* Pending list returns every order that is Pending at that moment, so the
\* order stays listed on every page until it is marked Done.
C24_PollingShowsPendingOrders ==
    /\ \A a \in StoreAdmins :
          /\ admin[a].authenticated ~> (admin[a].pc = "fetchP")
          /\ (admin[a].pc = "fetchP") ~> (admin[a].pc = "idle")
          /\ [](admin[a].pc # "stopped")
          /\ \A i \in 1..MaxOrders :
                (admin[a].authenticated /\ i \in DOMAIN rows /\ rows[i].status = "Pending")
                    ~> \/ admin[a].pc = "render" /\ i \in RowIds(admin[a].pending_requests)
                       \/ i \in DOMAIN rows /\ rows[i].status = "Done"
    /\ [][ \A a \in StoreAdmins :
              (admin[a].pc = "fetchP" /\ admin'[a].pc = "fetchD")
                 => RowIds(admin'[a].pending_requests)
                      = {i \in DOMAIN rows : rows[i].status = "Pending"} ]_vars

\* A page lists order 2 as Pending after order 1, listed by an earlier page
\* of the same session, has been marked Done.
C24_Witness ==
    /\ admin["a1"].pc = "render"
    /\ 2 \in RowIds(admin["a1"].pending_requests)
    /\ 1 \in DOMAIN rows
    /\ rows[1].status = "Done"
    /\ admin["a1"].elapsed = 0

\* C25: polling respects a minimum interval.  Whenever a session queries the
\* table for its lists, POLL_INTERVAL or more has passed since its previous
\* query, also in a run that a button click started early, and after the
\* query last_fetch_time is the time of that query.
C25_MinimumPollInterval ==
    [][ \A a \in StoreAdmins :
           (admin[a].timed /\ admin[a].pc = "fetchP" /\ admin'[a].pc = "fetchD")
              => /\ admin[a].query_age >= POLL_INTERVAL
                 /\ admin'[a].elapsed = admin'[a].query_age ]_vars

====
